---------------------------- MODULE Spec2Model ----------------------------
(***************************************************************************)
(* Model of tests/claude_code_benchmarks/analyze_results.py: the summary   *)
(* and group statistics, the two rankings, the two token-cost models, the  *)
(* chart and the pipeline of main; and of ensure_fresh_index of            *)
(* examples/ai_agent_example.py.                                           *)
(*                                                                         *)
(* A ResultSet is a sequence of records.  Every Python number that can be  *)
(* a float is an exact rational [num, den] in lowest terms (den > 0), so   *)
(* that / is real division and not integer division.  A Python exception   *)
(* is the value [exc |-> name]; arithmetic propagates it, and the action   *)
(* that applies a function ends in pc = "raised" when the function raised. *)
(* Every record of a ResultSet has its own test_id, its position in the    *)
(* file, so that two records with equal fields stay apart in a group or a  *)
(* ranking.                                                                *)
(***************************************************************************)
EXTENDS Integers, Sequences, FiniteSets

VARIABLES
    results,               \* the ResultSet the functions are applied to
    top_n,                 \* the top_n argument of the two rankings
    pc,                    \* "ready", then the name of the function applied
    summary_stats,         \* calculate_summary_stats(results)
    category_stats,        \* calculate_category_stats(results)
    category_results,      \* group_by_category(results)
    complexity_results,    \* group_by_complexity(results)
    category_breakdown,    \* what print_category_breakdown prints
    complexity_breakdown,  \* what print_complexity_breakdown prints
    slowest,               \* what print_slowest_tests prints
    largest,               \* what print_largest_outputs prints
    token_savings,         \* the figures of estimate_token_savings
    realistic_savings,     \* the figures of estimate_realistic_token_savings
    file,                  \* main: the file named by args.results_file
    plot,                  \* main: args.plot
    matplotlib,            \* main: whether matplotlib and numpy can be imported
    rendered,              \* main: the report sections printed so far
    messages,              \* main: the errors, warnings and notices printed
    exit_status,           \* main: the exit status of the process, once ended
    reads,                 \* main: the fields read so far, <<test_id, field>>
    response,              \* agent: the response of query_reflex
    returned,              \* agent: what ensure_fresh_index returned
    commands,              \* agent: the commands run by ensure_fresh_index
    queries                \* agent: the number of queries made so far

vars == <<results, top_n, pc, summary_stats, category_stats, category_results,
          complexity_results, category_breakdown, complexity_breakdown,
          slowest, largest, token_savings, realistic_savings,
          file, plot, matplotlib, rendered, messages, exit_status, reads,
          response, returned, commands, queries>>

\* the state of a run of main
mainVars == <<file, plot, matplotlib, rendered, messages, exit_status, reads>>

\* the state of the example agent
agentVars == <<response, returned, commands, queries>>

-----------------------------------------------------------------------------
(* Bounds of the inputs.                                                   *)

MaxLen == 3
MaxMetric == 1
MaxTop == 4
OutputUnit == 1000

-----------------------------------------------------------------------------
(* Python numbers.                                                         *)

Abs(n) == IF n < 0 THEN -n ELSE n

RECURSIVE GCD(_, _)
GCD(a, b) == IF b = 0 THEN a ELSE GCD(b, a % b)

\* the rational n/d (d # 0) in lowest terms with a positive denominator
Rat(n, d) ==
    LET g == GCD(Abs(n), Abs(d))
        s == IF d < 0 THEN -1 ELSE 1
    IN  [num |-> s * (n \div g), den |-> s * (d \div g)]

Num(n) == [num |-> n, den |-> 1]

Zero == Num(0)

Raise(name) == [exc |-> name]

IsExc(v) == "exc" \in DOMAIN v

Add(a, b) ==
    IF IsExc(a) THEN a ELSE IF IsExc(b) THEN b
    ELSE Rat(a.num * b.den + b.num * a.den, a.den * b.den)

Sub(a, b) ==
    IF IsExc(a) THEN a ELSE IF IsExc(b) THEN b
    ELSE Rat(a.num * b.den - b.num * a.den, a.den * b.den)

Mul(a, b) ==
    IF IsExc(a) THEN a ELSE IF IsExc(b) THEN b
    ELSE Rat(a.num * b.num, a.den * b.den)

\* Python's a / b: ZeroDivisionError when b is 0
Div(a, b) ==
    IF IsExc(a) THEN a ELSE IF IsExc(b) THEN b
    ELSE IF b.num = 0 THEN Raise("ZeroDivisionError")
    ELSE Rat(a.num * b.den, a.den * b.num)

\* Python's truth value of a number, as in "if builtin_total_tokens > 0"
Positive(a) == a.num > 0

-----------------------------------------------------------------------------
(* Python lists.                                                           *)

\* sum(s) of a list of integers: 0 for the empty list
RECURSIVE sum(_)
sum(s) == IF s = <<>> THEN 0 ELSE Head(s) + sum(Tail(s))

\* min(s): ValueError for the empty list
RECURSIVE min(_)
min(s) ==
    IF s = <<>> THEN Raise("ValueError")
    ELSE IF Len(s) = 1 THEN Num(s[1])
    ELSE LET m == min(Tail(s)) IN IF m.num < Head(s) THEN m ELSE Num(Head(s))

\* max(s): ValueError for the empty list
RECURSIVE max(_)
max(s) ==
    IF s = <<>> THEN Raise("ValueError")
    ELSE IF Len(s) = 1 THEN Num(s[1])
    ELSE LET m == max(Tail(s)) IN IF m.num > Head(s) THEN m ELSE Num(Head(s))

Hundred == Num(100)

-----------------------------------------------------------------------------
(* The statistics.                                                         *)

IsPass(r) == r.status = "PASS"

\* [r for r in rs if r['status'] == 'PASS']
RECURSIVE PassOnly(_)
PassOnly(rs) ==
    IF rs = <<>> THEN <<>>
    ELSE IF IsPass(Head(rs)) THEN <<Head(rs)>> \o PassOnly(Tail(rs))
    ELSE PassOnly(Tail(rs))

\* [r[field] for r in rs]
Column(rs, field) == [i \in 1..Len(rs) |-> rs[i][field]]

\* the subtraction with its operands exchanged
SummaryFailedMissubtracted(total_tests, passed_tests) == passed_tests - total_tests

\* failed_tests = total_tests - passed_tests
SummaryFailed(total_tests, passed_tests) == total_tests - passed_tests

\* (passed_tests / total_tests * 100) if total_tests > 0 else 0
SummarySuccessRate(passed_tests, total_tests) ==
    IF total_tests > 0
    THEN Mul(Div(Num(passed_tests), Num(total_tests)), Hundred)
    ELSE Zero

\* sum(xs) / len(xs) if xs else 0
SummaryAverage(xs) ==
    IF xs # <<>> THEN Div(Num(sum(xs)), Num(Len(xs))) ELSE Zero

\* the minimum without its guard
SummaryMinUnguarded(durations) == min(durations)

\* min(durations) if durations else 0
SummaryMin(durations) == IF durations # <<>> THEN min(durations) ELSE Zero

\* max(durations) if durations else 0
SummaryMax(durations) == IF durations # <<>> THEN max(durations) ELSE Zero

\* calculate_summary_stats(results)
calculate_summary_stats(rs) ==
    LET total_tests  == Len(rs)
        passed_tests == Len(PassOnly(rs))
        failed_tests == SummaryFailed(total_tests, passed_tests)
        durations    == Column(PassOnly(rs), "duration_ms")
        output_sizes == Column(PassOnly(rs), "output_size_bytes")
    IN  [ total_tests             |-> total_tests,
          passed                  |-> passed_tests,
          failed                  |-> failed_tests,
          success_rate            |-> SummarySuccessRate(passed_tests, total_tests),
          avg_duration_ms         |-> SummaryAverage(durations),
          min_duration_ms         |-> SummaryMin(durations),
          max_duration_ms         |-> SummaryMax(durations),
          avg_output_size_bytes   |-> SummaryAverage(output_sizes),
          total_output_size_bytes |-> sum(output_sizes) ]

\* (passed / total * 100) if total > 0 else 0
CategorySuccessRate(passed, total) ==
    IF total > 0 THEN Mul(Div(Num(passed), Num(total)), Hundred) ELSE Zero

\* the average taken over all the records of the group
CategoryAverageOverAll(xs, total) ==
    IF xs # <<>> THEN Div(Num(sum(xs)), Num(total)) ELSE Zero

\* sum(xs) / len(xs) if xs else 0
CategoryAverage(xs, total) ==
    IF xs # <<>> THEN Div(Num(sum(xs)), Num(Len(xs))) ELSE Zero

\* calculate_category_stats(results)
calculate_category_stats(rs) ==
    LET total        == Len(rs)
        passed       == Len(PassOnly(rs))
        durations    == Column(PassOnly(rs), "duration_ms")
        output_sizes == Column(PassOnly(rs), "output_size_bytes")
    IN  [ total_tests           |-> total,
          passed                |-> passed,
          success_rate          |-> CategorySuccessRate(passed, total),
          avg_duration_ms       |-> CategoryAverage(durations, total),
          avg_output_size_bytes |-> CategoryAverage(output_sizes, total) ]

\* whether the evaluation of a statistics dictionary raised
SummaryRaised(s) ==
    \/ IsExc(s.success_rate)
    \/ IsExc(s.avg_duration_ms)
    \/ IsExc(s.min_duration_ms)
    \/ IsExc(s.max_duration_ms)
    \/ IsExc(s.avg_output_size_bytes)

CategoryStatsRaised(s) ==
    \/ IsExc(s.success_rate)
    \/ IsExc(s.avg_duration_ms)
    \/ IsExc(s.avg_output_size_bytes)

-----------------------------------------------------------------------------
(* Grouping.  A dict is the sequence of its items [key, value] in          *)
(* insertion order; a defaultdict(list) creates the empty list on the      *)
(* first access to a key.                                                  *)

HasKey(d, k) == \E j \in 1..Len(d) : d[j].key = k

Position(d, k) == CHOOSE j \in 1..Len(d) : d[j].key = k

Get(d, k) == d[Position(d, k)].value

\* an assignment in place of the append
DictAppendReplacing(d, k, r) ==
    IF HasKey(d, k)
    THEN [d EXCEPT ![Position(d, k)].value = <<r>>]
    ELSE Append(d, [key |-> k, value |-> <<r>>])

\* grouped[k].append(r)
DictAppend(d, k, r) ==
    IF HasKey(d, k)
    THEN [d EXCEPT ![Position(d, k)].value = Append(@, r)]
    ELSE Append(d, [key |-> k, value |-> <<r>>])

\* group_by_category(results): the loop over the first n results
RECURSIVE GroupByCategoryLoop(_, _)
GroupByCategoryLoop(rs, n) ==
    IF n = 0 THEN <<>>
    ELSE DictAppend(GroupByCategoryLoop(rs, n - 1), rs[n].category, rs[n])

group_by_category(rs) == GroupByCategoryLoop(rs, Len(rs))

\* group_by_complexity(results): the loop over the first n results
RECURSIVE GroupByComplexityLoop(_, _)
GroupByComplexityLoop(rs, n) ==
    IF n = 0 THEN <<>>
    ELSE DictAppend(GroupByComplexityLoop(rs, n - 1), rs[n].complexity, rs[n])

group_by_complexity(rs) == GroupByComplexityLoop(rs, Len(rs))

\* the strings of the model in Python's string order (by code point)
StringOrder == <<"Complex", "Medium", "Simple", "Unknown", "navigation", "search">>

StrLess(a, b) ==
    \E i, j \in 1..Len(StringOrder) :
        StringOrder[i] = a /\ StringOrder[j] = b /\ i < j

ItemBefore(a, b) == StrLess(a.key, b.key)

\* sorted(items): an item goes in front of the first one it is before
RECURSIVE InsertItem(_, _)
InsertItem(s, x) ==
    IF s = <<>> THEN <<x>>
    ELSE IF ItemBefore(x, Head(s)) THEN <<x>> \o s
    ELSE <<Head(s)>> \o InsertItem(Tail(s), x)

RECURSIVE SortedItemsLoop(_, _)
SortedItemsLoop(s, n) ==
    IF n = 0 THEN <<>> ELSE InsertItem(SortedItemsLoop(s, n - 1), s[n])

\* sorted(category_results.items())
SortedItems(d) == SortedItemsLoop(d, Len(d))

\* print_category_breakdown(category_results): the entries printed, in order
print_category_breakdown(category_results_) ==
    LET items == SortedItems(category_results_)
    IN  [i \in 1..Len(items) |->
            [key |-> items[i].key,
             stats |-> calculate_category_stats(items[i].value)]]

\* the tiers from Complex down
complexity_order_reversed == <<"Complex", "Medium", "Simple">>

\* complexity_order = ['Simple', 'Medium', 'Complex']
complexity_order == <<"Simple", "Medium", "Complex">>

\* the tiers of complexity_order[1..n] that pass "if complexity not in
\* complexity_results: continue"
RECURSIVE InDictLoop(_, _)
InDictLoop(d, n) ==
    IF n = 0 THEN <<>>
    ELSE IF HasKey(d, complexity_order[n])
         THEN Append(InDictLoop(d, n - 1), complexity_order[n])
         ELSE InDictLoop(d, n - 1)

InDict(d) == InDictLoop(d, Len(complexity_order))

\* print_complexity_breakdown(complexity_results): the entries printed
print_complexity_breakdown(complexity_results_) ==
    LET present == InDict(complexity_results_)
    IN  [i \in 1..Len(present) |->
            [key |-> present[i],
             stats |-> calculate_category_stats(Get(complexity_results_, present[i]))]]

BreakdownRaised(b) == \E i \in 1..Len(b) : CategoryStatsRaised(b[i].stats)

-----------------------------------------------------------------------------
(* The rankings.                                                           *)

\* s[:n]
SliceTo(s, n) ==
    IF n >= 0 THEN SubSeq(s, 1, IF n < Len(s) THEN n ELSE Len(s))
    ELSE SubSeq(s, 1, IF Len(s) + n > 0 THEN Len(s) + n ELSE 0)

\* an order that lets a later record overtake the records it ties with
OutranksOrTies(a, b) == a >= b

\* reverse=True: the larger key first
Outranks(a, b) == a > b

\* sorted(s, key=lambda x: x[field], reverse=True), stable: a record goes in
\* front of the first one it outranks, behind every one it ties with
RECURSIVE InsertRanked(_, _, _)
InsertRanked(s, x, field) ==
    IF s = <<>> THEN <<x>>
    ELSE IF Outranks(x[field], Head(s)[field]) THEN <<x>> \o s
    ELSE <<Head(s)>> \o InsertRanked(Tail(s), x, field)

RECURSIVE SortedReverseLoop(_, _, _)
SortedReverseLoop(s, n, field) ==
    IF n = 0 THEN <<>>
    ELSE InsertRanked(SortedReverseLoop(s, n - 1, field), s[n], field)

SortedReverse(s, field) == SortedReverseLoop(s, Len(s), field)

\* sorted(...)[:top_n]
RankSlice(s, n) == SliceTo(s, n)

\* print_slowest_tests(results, top_n): the records printed, in order
print_slowest_tests(rs, n) ==
    RankSlice(SortedReverse(PassOnly(rs), "duration_ms"), n)

\* print_largest_outputs(results, top_n): the records printed, in order
print_largest_outputs(rs, n) ==
    RankSlice(SortedReverse(PassOnly(rs), "output_size_bytes"), n)

-----------------------------------------------------------------------------
(* The token-cost models.                                                  *)

CHARS_PER_TOKEN == 4
TOOL_CALL_OVERHEAD == 50

\* d.get(k, default)
GetOr(d, k, default) == IF HasKey(d, k) THEN Get(d, k) ELSE default

\* complexity_multipliers of estimate_token_savings
complexity_multipliers ==
    << [key |-> "Simple",  value |-> Rat(3, 2)],
       [key |-> "Medium",  value |-> Rat(5, 2)],
       [key |-> "Complex", value |-> Num(5)] >>

\* 1.8, the verbosity of the built-in tools' output
BuiltinVerbosity == Rat(9, 5)

\* the calls counted over the PASS records only
TokenRfxToolCallsPassed(rs) == Len(PassOnly(rs))

\* rfx_tool_calls = len(results)
TokenRfxToolCalls(rs) == Len(rs)

\* the multiplier with a default of 1.0
TokenMultiplierDefaultOne(complexity) ==
    GetOr(complexity_multipliers, complexity, Num(1))

\* multiplier = complexity_multipliers.get(complexity, 2.0)
TokenMultiplier(complexity) == GetOr(complexity_multipliers, complexity, Num(2))

\* builtin_tool_calls after the first n items of complexity_groups
RECURSIVE TokenBuiltinCallsLoop(_, _)
TokenBuiltinCallsLoop(complexity_groups, n) ==
    IF n = 0 THEN Zero
    ELSE Add(TokenBuiltinCallsLoop(complexity_groups, n - 1),
             Mul(Num(Len(complexity_groups[n].value)),
                 TokenMultiplier(complexity_groups[n].key)))

\* the percentage without its guard
TokenSavingsPctUnguarded(savings, builtin_total_tokens) ==
    Mul(Div(savings, builtin_total_tokens), Hundred)

\* (tool_output_savings / builtin_total_tokens * 100) if builtin_total_tokens > 0 else 0
TokenSavingsPct(savings, builtin_total_tokens) ==
    IF Positive(builtin_total_tokens)
    THEN Mul(Div(savings, builtin_total_tokens), Hundred)
    ELSE Zero

\* estimate_token_savings(results): the figures computed (and printed)
estimate_token_savings(rs) ==
    LET rfx_tool_calls      == TokenRfxToolCalls(rs)
        rfx_output_chars    == sum(Column(PassOnly(rs), "output_size_bytes"))
        rfx_output_tokens   == Div(Num(rfx_output_chars), Num(CHARS_PER_TOKEN))
        rfx_overhead_tokens == Num(rfx_tool_calls * TOOL_CALL_OVERHEAD)
        rfx_total_tokens    == Add(rfx_output_tokens, rfx_overhead_tokens)
        complexity_groups   == group_by_complexity(rs)
        builtin_tool_calls  ==
            TokenBuiltinCallsLoop(complexity_groups, Len(complexity_groups))
        builtin_output_chars    == Mul(Num(rfx_output_chars), BuiltinVerbosity)
        builtin_output_tokens   == Div(builtin_output_chars, Num(CHARS_PER_TOKEN))
        builtin_overhead_tokens == Mul(builtin_tool_calls, Num(TOOL_CALL_OVERHEAD))
        builtin_total_tokens    == Add(builtin_output_tokens, builtin_overhead_tokens)
        tool_output_savings     == Sub(builtin_total_tokens, rfx_total_tokens)
    IN  [ rfx_tool_calls          |-> rfx_tool_calls,
          rfx_output_tokens       |-> rfx_output_tokens,
          rfx_overhead_tokens     |-> rfx_overhead_tokens,
          rfx_total_tokens        |-> rfx_total_tokens,
          builtin_tool_calls      |-> builtin_tool_calls,
          builtin_output_tokens   |-> builtin_output_tokens,
          builtin_overhead_tokens |-> builtin_overhead_tokens,
          builtin_total_tokens    |-> builtin_total_tokens,
          tool_output_savings     |-> tool_output_savings,
          tool_output_savings_pct |->
              TokenSavingsPct(tool_output_savings, builtin_total_tokens) ]

R_CHARS_PER_TOKEN == 4
R_TOOL_CALL_OVERHEAD == 50
USER_PROMPT_TOKENS == 25
CLAUDE_REASONING_TOKENS == 120
CLAUDE_RESPONSE_TOKENS == 80

\* complexity_multipliers of estimate_realistic_token_savings
realistic_complexity_multipliers ==
    << [key |-> "Simple",  value |-> Rat(3, 2)],
       [key |-> "Medium",  value |-> Rat(5, 2)],
       [key |-> "Complex", value |-> Num(5)] >>

\* rfx_tool_calls = len([r for r in results if r['status'] == 'PASS'])
RealisticRfxToolCalls(rs) == Len(PassOnly(rs))

\* the groups of all the records, FAIL included
RealisticComplexityGroupsOfAll(rs) == group_by_complexity(rs)

\* complexity_groups = group_by_complexity([r for r in results if r['status'] == 'PASS'])
RealisticComplexityGroups(rs) == group_by_complexity(PassOnly(rs))

\* builtin_tool_calls after the first n items of complexity_groups
RECURSIVE RealisticBuiltinCallsLoop(_, _)
RealisticBuiltinCallsLoop(complexity_groups, n) ==
    IF n = 0 THEN Zero
    ELSE Add(RealisticBuiltinCallsLoop(complexity_groups, n - 1),
             Mul(Num(Len(complexity_groups[n].value)),
                 GetOr(realistic_complexity_multipliers,
                       complexity_groups[n].key, Num(2))))

\* (total_savings / builtin_total_tokens * 100) if builtin_total_tokens > 0 else 0
RealisticSavingsPct(savings, builtin_total_tokens) ==
    IF Positive(builtin_total_tokens)
    THEN Mul(Div(savings, builtin_total_tokens), Hundred)
    ELSE Zero

\* estimate_realistic_token_savings(results): the figures computed (and printed)
estimate_realistic_token_savings(rs) ==
    LET rfx_tool_calls         == RealisticRfxToolCalls(rs)
        rfx_output_chars       == sum(Column(PassOnly(rs), "output_size_bytes"))
        rfx_tool_output_tokens == Div(Num(rfx_output_chars), Num(R_CHARS_PER_TOKEN))
        rfx_tool_overhead      == Num(rfx_tool_calls * R_TOOL_CALL_OVERHEAD)
        rfx_user_tokens        == Num(rfx_tool_calls * USER_PROMPT_TOKENS)
        rfx_claude_reasoning   == Num(rfx_tool_calls * CLAUDE_REASONING_TOKENS)
        rfx_claude_response    == Num(rfx_tool_calls * CLAUDE_RESPONSE_TOKENS)
        rfx_total_tokens       ==
            Add(Add(Add(Add(rfx_user_tokens, rfx_claude_reasoning),
                        rfx_tool_output_tokens), rfx_tool_overhead),
                rfx_claude_response)
        complexity_groups      == RealisticComplexityGroups(rs)
        builtin_tool_calls     ==
            RealisticBuiltinCallsLoop(complexity_groups, Len(complexity_groups))
        builtin_output_chars   == Mul(Num(rfx_output_chars), BuiltinVerbosity)
        builtin_tool_output    == Div(builtin_output_chars, Num(R_CHARS_PER_TOKEN))
        builtin_tool_overhead  == Mul(builtin_tool_calls, Num(R_TOOL_CALL_OVERHEAD))
        builtin_user_tokens    == Num(rfx_tool_calls * USER_PROMPT_TOKENS)
        builtin_claude_reasoning ==
            Mul(Num(rfx_tool_calls), Mul(Num(CLAUDE_REASONING_TOKENS), Rat(3, 2)))
        builtin_claude_response ==
            Mul(Num(rfx_tool_calls), Mul(Num(CLAUDE_RESPONSE_TOKENS), Rat(6, 5)))
        builtin_total_tokens   ==
            Add(Add(Add(Add(builtin_user_tokens, builtin_claude_reasoning),
                        builtin_tool_output), builtin_tool_overhead),
                builtin_claude_response)
        total_savings          == Sub(builtin_total_tokens, rfx_total_tokens)
    IN  [ rfx_tool_calls           |-> rfx_tool_calls,
          rfx_user_tokens          |-> rfx_user_tokens,
          rfx_claude_reasoning     |-> rfx_claude_reasoning,
          rfx_tool_output_tokens   |-> rfx_tool_output_tokens,
          rfx_tool_overhead        |-> rfx_tool_overhead,
          rfx_claude_response      |-> rfx_claude_response,
          rfx_total_tokens         |-> rfx_total_tokens,
          builtin_tool_calls       |-> builtin_tool_calls,
          builtin_user_tokens      |-> builtin_user_tokens,
          builtin_claude_reasoning |-> builtin_claude_reasoning,
          builtin_tool_output      |-> builtin_tool_output,
          builtin_tool_overhead    |-> builtin_tool_overhead,
          builtin_claude_response  |-> builtin_claude_response,
          builtin_total_tokens     |-> builtin_total_tokens,
          total_savings            |-> total_savings,
          savings_pct              |->
              RealisticSavingsPct(total_savings, builtin_total_tokens) ]

-----------------------------------------------------------------------------
(* The inputs.                                                             *)

None == <<>>

SeqsUpTo(S, n) == UNION {[1..k -> S] : k \in 0..n}

Record(cat, cx, st, d, o) ==
    [test_id |-> 0, test_name |-> "test", category |-> cat,
     complexity |-> cx, status |-> st,
     duration_ms |-> d, output_size_bytes |-> o, output_lines |-> d]

\* the records of a file, each with its own test_id: 1, 2, ...
Numbered(s) == [i \in 1..Len(s) |-> [s[i] EXCEPT !.test_id = i]]

ResultSets(Records) == {Numbered(s) : s \in SeqsUpTo(Records, MaxLen)}

Categories == {"navigation", "search"}

Complexities == {"Simple", "Medium", "Complex", "Unknown"}

\* one category, one tier; PASS records with every pair of metrics and a
\* FAIL record that carries the largest metrics
MetricRecords ==
    {Record("search", "Simple", "PASS", d, o) :
        d \in 0..MaxMetric, o \in 0..MaxMetric}
    \cup {Record("search", "Simple", "FAIL", MaxMetric, MaxMetric)}

\* every category, one tier; PASS records with every pair of metrics and a
\* FAIL record that carries the largest metrics
CategoryRecords ==
    {Record(c, "Simple", "PASS", d, o) :
        c \in Categories, d \in 0..MaxMetric, o \in 0..MaxMetric}
    \cup {Record(c, "Simple", "FAIL", MaxMetric, MaxMetric) : c \in Categories}

\* every category, tier and status; one duration and output size
ComplexityRecords ==
    {Record(c, x, s, 1, OutputUnit) :
        c \in Categories, x \in Complexities, s \in {"PASS", "FAIL"}}

\* one category, every tier; PASS records of every output size and a FAIL
\* record that carries the largest output size
TokenRecords ==
    {Record("search", x, "PASS", 1, k * OutputUnit) :
        x \in Complexities, k \in 0..MaxMetric}
    \cup {Record("search", x, "FAIL", 1, MaxMetric * OutputUnit) :
            x \in Complexities}

\* no run of main
MainIdle ==
    /\ file = None
    /\ plot = FALSE
    /\ matplotlib = FALSE
    /\ rendered = <<>>
    /\ messages = <<>>
    /\ exit_status = None
    /\ reads = {}

\* no run of the example agent
AgentIdle ==
    /\ response = None
    /\ returned = None
    /\ commands = <<>>
    /\ queries = 0

InitWith(Records, Tops) ==
    /\ results \in ResultSets(Records)
    /\ top_n \in Tops
    /\ pc = "ready"
    /\ summary_stats = None
    /\ category_stats = None
    /\ category_results = None
    /\ complexity_results = None
    /\ category_breakdown = None
    /\ complexity_breakdown = None
    /\ slowest = None
    /\ largest = None
    /\ token_savings = None
    /\ realistic_savings = None
    /\ MainIdle
    /\ AgentIdle

-----------------------------------------------------------------------------
(* The operations: one function applied to the ResultSet.                  *)

\* summary_stats = calculate_summary_stats(results)
CalculateSummaryStats ==
    /\ pc = "ready"
    /\ LET s == calculate_summary_stats(results)
       IN  IF SummaryRaised(s)
           THEN pc' = "raised" /\ UNCHANGED summary_stats
           ELSE pc' = "calculate_summary_stats" /\ summary_stats' = s
    /\ UNCHANGED <<mainVars, agentVars>>
    /\ UNCHANGED <<results, top_n, category_stats, category_results,
                   complexity_results, category_breakdown, complexity_breakdown,
                   slowest, largest, token_savings, realistic_savings>>

\* calculate_category_stats(results), the ResultSet taken as one group
CalculateCategoryStats ==
    /\ pc = "ready"
    /\ LET s == calculate_category_stats(results)
       IN  IF CategoryStatsRaised(s)
           THEN pc' = "raised" /\ UNCHANGED category_stats
           ELSE pc' = "calculate_category_stats" /\ category_stats' = s
    /\ UNCHANGED <<mainVars, agentVars>>
    /\ UNCHANGED <<results, top_n, summary_stats, category_results,
                   complexity_results, category_breakdown, complexity_breakdown,
                   slowest, largest, token_savings, realistic_savings>>

\* category_results = group_by_category(results)
\* print_category_breakdown(category_results)
CategoryBreakdown ==
    /\ pc = "ready"
    /\ category_results' = group_by_category(results)
    /\ LET b == print_category_breakdown(category_results')
       IN  IF BreakdownRaised(b)
           THEN pc' = "raised" /\ UNCHANGED category_breakdown
           ELSE pc' = "print_category_breakdown" /\ category_breakdown' = b
    /\ UNCHANGED <<mainVars, agentVars>>
    /\ UNCHANGED <<results, top_n, summary_stats, category_stats,
                   complexity_results, complexity_breakdown,
                   slowest, largest, token_savings, realistic_savings>>

\* complexity_results = group_by_complexity(results)
\* print_complexity_breakdown(complexity_results)
ComplexityBreakdown ==
    /\ pc = "ready"
    /\ complexity_results' = group_by_complexity(results)
    /\ LET b == print_complexity_breakdown(complexity_results')
       IN  IF BreakdownRaised(b)
           THEN pc' = "raised" /\ UNCHANGED complexity_breakdown
           ELSE pc' = "print_complexity_breakdown" /\ complexity_breakdown' = b
    /\ UNCHANGED <<mainVars, agentVars>>
    /\ UNCHANGED <<results, top_n, summary_stats, category_stats,
                   category_results, category_breakdown,
                   slowest, largest, token_savings, realistic_savings>>

\* print_slowest_tests(results, top_n=args.top)
PrintSlowestTests ==
    /\ pc = "ready"
    /\ slowest' = print_slowest_tests(results, top_n)
    /\ pc' = "print_slowest_tests"
    /\ UNCHANGED <<mainVars, agentVars>>
    /\ UNCHANGED <<results, top_n, summary_stats, category_stats,
                   category_results, complexity_results, category_breakdown,
                   complexity_breakdown, largest, token_savings,
                   realistic_savings>>

\* print_largest_outputs(results, top_n=args.top)
PrintLargestOutputs ==
    /\ pc = "ready"
    /\ largest' = print_largest_outputs(results, top_n)
    /\ pc' = "print_largest_outputs"
    /\ UNCHANGED <<mainVars, agentVars>>
    /\ UNCHANGED <<results, top_n, summary_stats, category_stats,
                   category_results, complexity_results, category_breakdown,
                   complexity_breakdown, slowest, token_savings,
                   realistic_savings>>

\* estimate_token_savings(results)
EstimateTokenSavings ==
    /\ pc = "ready"
    /\ LET t == estimate_token_savings(results)
       IN  IF IsExc(t.tool_output_savings_pct)
           THEN pc' = "raised" /\ UNCHANGED token_savings
           ELSE pc' = "estimate_token_savings" /\ token_savings' = t
    /\ UNCHANGED <<mainVars, agentVars>>
    /\ UNCHANGED <<results, top_n, summary_stats, category_stats,
                   category_results, complexity_results, category_breakdown,
                   complexity_breakdown, slowest, largest, realistic_savings>>

\* estimate_realistic_token_savings(results)
EstimateRealisticTokenSavings ==
    /\ pc = "ready"
    /\ LET t == estimate_realistic_token_savings(results)
       IN  IF IsExc(t.savings_pct)
           THEN pc' = "raised" /\ UNCHANGED realistic_savings
           ELSE pc' = "estimate_realistic_token_savings" /\ realistic_savings' = t
    /\ UNCHANGED <<mainVars, agentVars>>
    /\ UNCHANGED <<results, top_n, summary_stats, category_stats,
                   category_results, complexity_results, category_breakdown,
                   complexity_breakdown, slowest, largest, token_savings>>

-----------------------------------------------------------------------------
(* The specifications: the functions a claim is about, applied to every    *)
(* ResultSet of the bounded input set that exercises them.                 *)

InitSummary == InitWith(MetricRecords, {MaxTop})

NextSummary == CalculateSummaryStats \/ CalculateCategoryStats

SpecSummary == InitSummary /\ [][NextSummary]_vars

InitRank == InitWith(MetricRecords, -1..MaxTop)

NextRank == PrintSlowestTests \/ PrintLargestOutputs

SpecRank == InitRank /\ [][NextRank]_vars

InitCategory == InitWith(CategoryRecords, {MaxTop})

NextCategory == CategoryBreakdown

SpecCategory == InitCategory /\ [][NextCategory]_vars

InitComplexity == InitWith(ComplexityRecords, {MaxTop})

NextComplexity == CalculateSummaryStats \/ CategoryBreakdown \/ ComplexityBreakdown

SpecComplexity == InitComplexity /\ [][NextComplexity]_vars

InitToken == InitWith(TokenRecords, {MaxTop})

NextToken ==
    CalculateSummaryStats \/ EstimateTokenSavings \/ EstimateRealisticTokenSavings

SpecToken == InitToken /\ [][NextToken]_vars

-----------------------------------------------------------------------------
(* The fields a stage reads.  A read is <<test_id, field>>; reading a      *)
(* field that a record does not have raises KeyError.                      *)

AllIds(rs) == 1..Len(rs)

\* the records every stage reads the status of
StatusReads(rs) == AllIds(rs) \X {"status"}

\* the records a numeric field is read from, were status not looked at
PassIdsUnfiltered(rs) == AllIds(rs)

\* the records that pass "if r['status'] == 'PASS'"
PassIds(rs) == {i \in AllIds(rs) : IsPass(rs[i])}

\* what calculate_summary_stats and calculate_category_stats read
StatsReads(rs, ids) ==
    (ids \X {"status"})
        \cup ((ids \cap PassIds(rs)) \X {"duration_ms", "output_size_bytes"})

\* calculate_summary_stats(results)
SummaryReads(rs) == StatsReads(rs, AllIds(rs))

\* group_by_category(results), then calculate_category_stats of every group
CategoryBreakdownReads(rs) ==
    (AllIds(rs) \X {"category"}) \cup StatsReads(rs, AllIds(rs))

\* group_by_complexity(results), then calculate_category_stats of the groups
\* of the tiers of complexity_order
ComplexityBreakdownReads(rs) ==
    (AllIds(rs) \X {"complexity"})
        \cup StatsReads(rs, {i \in AllIds(rs) :
                \E n \in 1..Len(complexity_order) :
                    rs[i].complexity = complexity_order[n]})

\* the test_ids of the rows of a ranking
RowIds(rows) == {rows[i].test_id : i \in 1..Len(rows)}

\* print_slowest_tests(results, top_n)
SlowestReads(rs, n) ==
    StatusReads(rs)
        \cup (PassIds(rs) \X {"duration_ms"})
        \cup (RowIds(print_slowest_tests(rs, n))
                \X {"test_id", "test_name", "duration_ms", "category"})

\* print_largest_outputs(results, top_n)
LargestReads(rs, n) ==
    StatusReads(rs)
        \cup (PassIds(rs) \X {"output_size_bytes"})
        \cup (RowIds(print_largest_outputs(rs, n))
                \X {"output_size_bytes", "test_id", "test_name",
                    "output_lines", "category"})

\* estimate_token_savings(results)
TokenReads(rs) ==
    StatusReads(rs)
        \cup (PassIds(rs) \X {"output_size_bytes"})
        \cup (AllIds(rs) \X {"complexity"})

\* estimate_realistic_token_savings(results)
RealisticReads(rs) ==
    StatusReads(rs)
        \cup (PassIds(rs) \X {"output_size_bytes", "complexity"})

\* plot_results(results)
PlotReads(rs) ==
    (AllIds(rs) \X {"category"})
        \cup StatusReads(rs)
        \cup (PassIds(rs) \X {"duration_ms", "output_size_bytes"})

\* r[field] of a record without the field
MissingRead(rs, rd) == \E p \in rd : p[2] \notin DOMAIN rs[p[1]]

-----------------------------------------------------------------------------
(* The chart.                                                              *)

\* avg_durations = [sum(PASS durations of cat) / len(PASS records of cat)
\*                  for cat in categories]
PlotAvgDurations(category_results_) ==
    [i \in 1..Len(category_results_) |->
        Div(Num(sum(Column(PassOnly(category_results_[i].value), "duration_ms"))),
            Num(Len(PassOnly(category_results_[i].value))))]

PlotRaised(avg_durations) ==
    \E i \in 1..Len(avg_durations) : IsExc(avg_durations[i])

-----------------------------------------------------------------------------
(* main: the pipeline from the file to the exit status.                    *)

\* a FAIL record without duration_ms, output_size_bytes and output_lines
FailRecordBare(cat, cx) ==
    [test_id |-> 0, test_name |-> "test", category |-> cat,
     complexity |-> cx, status |-> "FAIL"]

MainRecords ==
    {Record(c, "Simple", "PASS", k, k * OutputUnit) :
        c \in Categories, k \in {0, MaxMetric}}
    \cup {FailRecordBare(c, "Simple") : c \in Categories}

\* the file named on the command line: absent, not loadable (open or
\* json.load raises), or holding a list of records
Files ==
    {[state |-> "absent", content |-> <<>>],
     [state |-> "malformed", content |-> <<>>]}
    \cup {[state |-> "ok", content |-> rs] : rs \in ResultSets(MainRecords)}

\* the sections of the report, in the order main prints them
Sections ==
    << "BENCHMARK SUMMARY", "CATEGORY BREAKDOWN", "COMPLEXITY BREAKDOWN",
       "SLOWEST TESTS", "LARGEST OUTPUTS", "TOOL OUTPUT TOKEN IMPACT",
       "REALISTIC TOTAL TOKEN IMPACT" >>

outputs == <<summary_stats, category_stats, category_results,
             complexity_results, category_breakdown, complexity_breakdown,
             slowest, largest, token_savings, realistic_savings>>

InitMain ==
    /\ file \in Files
    /\ plot \in BOOLEAN
    /\ matplotlib \in BOOLEAN
    /\ top_n \in {1, MaxTop}
    /\ results = None
    /\ pc = "exists"
    /\ summary_stats = None
    /\ category_stats = None
    /\ category_results = None
    /\ complexity_results = None
    /\ category_breakdown = None
    /\ complexity_breakdown = None
    /\ slowest = None
    /\ largest = None
    /\ token_savings = None
    /\ realistic_savings = None
    /\ rendered = <<>>
    /\ messages = <<>>
    /\ exit_status = None
    /\ reads = {}
    /\ AgentIdle

\* print(message); sys.exit(code)
SysExit(code, kind, text) ==
    /\ pc' = "exited"
    /\ exit_status' = code
    /\ messages' = Append(messages, [kind |-> kind, text |-> text])

\* an exception nothing catches: the traceback, and exit status 1
Uncaught(exc) == SysExit(1, "Traceback", exc)

\* the end of main
Return ==
    /\ pc' = "exited"
    /\ exit_status' = 0

\* a section printed in full; main goes on to the next stage
Rendered(section, next) ==
    /\ pc' = next
    /\ rendered' = Append(rendered, section)
    /\ UNCHANGED <<messages, exit_status>>

\* if not Path(args.results_file).exists(): print("ERROR: ..."); sys.exit(1)
MainExists ==
    /\ pc = "exists"
    /\ IF file.state = "absent"
       THEN SysExit(1, "ERROR", "Results file not found")
       ELSE pc' = "load_results" /\ UNCHANGED <<messages, exit_status>>
    /\ UNCHANGED <<results, top_n, outputs, file, plot, matplotlib, rendered,
                   reads, agentVars>>

\* results = load_results(args.results_file)
MainLoadResults ==
    /\ pc = "load_results"
    /\ IF file.state = "malformed"
       THEN Uncaught("load_results") /\ UNCHANGED results
       ELSE /\ results' = file.content
            /\ pc' = "empty"
            /\ UNCHANGED <<messages, exit_status>>
    /\ UNCHANGED <<top_n, outputs, file, plot, matplotlib, rendered, reads,
                   agentVars>>

\* a check that lets every list through
NotResultsNever(rs) == FALSE

\* not results: the list loaded is empty
NotResults(rs) == rs = <<>>

\* if not results: print("ERROR: No results found in file"); sys.exit(1)
MainEmpty ==
    /\ pc = "empty"
    /\ IF NotResults(results)
       THEN SysExit(1, "ERROR", "No results found in file")
       ELSE pc' = "summary" /\ UNCHANGED <<messages, exit_status>>
    /\ UNCHANGED <<results, top_n, outputs, file, plot, matplotlib, rendered,
                   reads, agentVars>>

\* summary_stats = calculate_summary_stats(results); print_summary(summary_stats)
MainSummary ==
    /\ pc = "summary"
    /\ LET rd == SummaryReads(results)
       IN  /\ reads' = reads \cup rd
           /\ IF MissingRead(results, rd)
              THEN Uncaught("KeyError") /\ UNCHANGED <<summary_stats, rendered>>
              ELSE LET s == calculate_summary_stats(results)
                   IN  IF SummaryRaised(s)
                       THEN /\ Uncaught("ZeroDivisionError")
                            /\ UNCHANGED <<summary_stats, rendered>>
                       ELSE /\ summary_stats' = s
                            /\ Rendered(Sections[1], "category")
    /\ UNCHANGED <<results, top_n, category_stats, category_results,
                   complexity_results, category_breakdown, complexity_breakdown,
                   slowest, largest, token_savings, realistic_savings,
                   file, plot, matplotlib, agentVars>>

\* category_results = group_by_category(results)
\* print_category_breakdown(category_results)
MainCategoryBreakdown ==
    /\ pc = "category"
    /\ LET rd == CategoryBreakdownReads(results)
       IN  /\ reads' = reads \cup rd
           /\ IF MissingRead(results, rd)
              THEN /\ Uncaught("KeyError")
                   /\ UNCHANGED <<category_results, category_breakdown, rendered>>
              ELSE LET g == group_by_category(results)
                       b == print_category_breakdown(g)
                   IN  IF BreakdownRaised(b)
                       THEN /\ Uncaught("ZeroDivisionError")
                            /\ category_results' = g
                            /\ UNCHANGED <<category_breakdown, rendered>>
                       ELSE /\ category_results' = g
                            /\ category_breakdown' = b
                            /\ Rendered(Sections[2], "complexity")
    /\ UNCHANGED <<results, top_n, summary_stats, category_stats,
                   complexity_results, complexity_breakdown,
                   slowest, largest, token_savings, realistic_savings,
                   file, plot, matplotlib, agentVars>>

\* complexity_results = group_by_complexity(results)
\* print_complexity_breakdown(complexity_results)
MainComplexityBreakdown ==
    /\ pc = "complexity"
    /\ LET rd == ComplexityBreakdownReads(results)
       IN  /\ reads' = reads \cup rd
           /\ IF MissingRead(results, rd)
              THEN /\ Uncaught("KeyError")
                   /\ UNCHANGED <<complexity_results, complexity_breakdown,
                                  rendered>>
              ELSE LET g == group_by_complexity(results)
                       b == print_complexity_breakdown(g)
                   IN  IF BreakdownRaised(b)
                       THEN /\ Uncaught("ZeroDivisionError")
                            /\ complexity_results' = g
                            /\ UNCHANGED <<complexity_breakdown, rendered>>
                       ELSE /\ complexity_results' = g
                            /\ complexity_breakdown' = b
                            /\ Rendered(Sections[3], "slowest")
    /\ UNCHANGED <<results, top_n, summary_stats, category_stats,
                   category_results, category_breakdown,
                   slowest, largest, token_savings, realistic_savings,
                   file, plot, matplotlib, agentVars>>

\* print_slowest_tests(results, top_n=args.top)
MainSlowestTests ==
    /\ pc = "slowest"
    /\ LET rd == SlowestReads(results, top_n)
       IN  /\ reads' = reads \cup rd
           /\ IF MissingRead(results, rd)
              THEN Uncaught("KeyError") /\ UNCHANGED <<slowest, rendered>>
              ELSE /\ slowest' = print_slowest_tests(results, top_n)
                   /\ Rendered(Sections[4], "largest")
    /\ UNCHANGED <<results, top_n, summary_stats, category_stats,
                   category_results, complexity_results, category_breakdown,
                   complexity_breakdown, largest, token_savings,
                   realistic_savings, file, plot, matplotlib, agentVars>>

\* print_largest_outputs(results, top_n=args.top)
MainLargestOutputs ==
    /\ pc = "largest"
    /\ LET rd == LargestReads(results, top_n)
       IN  /\ reads' = reads \cup rd
           /\ IF MissingRead(results, rd)
              THEN Uncaught("KeyError") /\ UNCHANGED <<largest, rendered>>
              ELSE /\ largest' = print_largest_outputs(results, top_n)
                   /\ Rendered(Sections[5], "tokens")
    /\ UNCHANGED <<results, top_n, summary_stats, category_stats,
                   category_results, complexity_results, category_breakdown,
                   complexity_breakdown, slowest, token_savings,
                   realistic_savings, file, plot, matplotlib, agentVars>>

\* estimate_token_savings(results)
MainTokenSavings ==
    /\ pc = "tokens"
    /\ LET rd == TokenReads(results)
       IN  /\ reads' = reads \cup rd
           /\ IF MissingRead(results, rd)
              THEN Uncaught("KeyError") /\ UNCHANGED <<token_savings, rendered>>
              ELSE LET t == estimate_token_savings(results)
                   IN  IF IsExc(t.tool_output_savings_pct)
                       THEN /\ Uncaught("ZeroDivisionError")
                            /\ UNCHANGED <<token_savings, rendered>>
                       ELSE /\ token_savings' = t
                            /\ Rendered(Sections[6], "realistic")
    /\ UNCHANGED <<results, top_n, summary_stats, category_stats,
                   category_results, complexity_results, category_breakdown,
                   complexity_breakdown, slowest, largest, realistic_savings,
                   file, plot, matplotlib, agentVars>>

\* estimate_realistic_token_savings(results)
MainRealisticTokenSavings ==
    /\ pc = "realistic"
    /\ LET rd == RealisticReads(results)
       IN  /\ reads' = reads \cup rd
           /\ IF MissingRead(results, rd)
              THEN /\ Uncaught("KeyError")
                   /\ UNCHANGED <<realistic_savings, rendered>>
              ELSE LET t == estimate_realistic_token_savings(results)
                   IN  IF IsExc(t.savings_pct)
                       THEN /\ Uncaught("ZeroDivisionError")
                            /\ UNCHANGED <<realistic_savings, rendered>>
                       ELSE /\ realistic_savings' = t
                            /\ Rendered(Sections[7], "plot")
    /\ UNCHANGED <<results, top_n, summary_stats, category_stats,
                   category_results, complexity_results, category_breakdown,
                   complexity_breakdown, slowest, largest, token_savings,
                   file, plot, matplotlib, agentVars>>

\* if args.plot: plot_results(results)
MainPlot ==
    /\ pc = "plot"
    /\ IF plot
       THEN pc' = "plot_results" /\ UNCHANGED exit_status
       ELSE Return
    /\ UNCHANGED <<results, top_n, outputs, file, plot, matplotlib, rendered,
                   messages, reads, agentVars>>

\* plot_results(results), and the end of main after it
PlotResults ==
    /\ pc = "plot_results"
    /\ IF ~matplotlib
       THEN /\ Return
            /\ messages' = Append(messages,
                  [kind |-> "WARNING",
                   text |-> "matplotlib not installed. Skipping chart generation."])
            /\ UNCHANGED reads
       ELSE LET rd == PlotReads(results)
            IN  /\ reads' = reads \cup rd
                /\ IF MissingRead(results, rd)
                   THEN Uncaught("KeyError")
                   ELSE IF PlotRaised(PlotAvgDurations(group_by_category(results)))
                   THEN Uncaught("ZeroDivisionError")
                   ELSE \E saved \in BOOLEAN :
                           IF saved
                           THEN /\ Return
                                /\ messages' = Append(messages,
                                      [kind |-> "Charts saved to",
                                       text |-> "benchmark_charts.png"])
                           ELSE Uncaught("OSError")
    /\ UNCHANGED <<results, top_n, outputs, file, plot, matplotlib, rendered,
                   agentVars>>

NextMain ==
    \/ MainExists
    \/ MainLoadResults
    \/ MainEmpty
    \/ MainSummary
    \/ MainCategoryBreakdown
    \/ MainComplexityBreakdown
    \/ MainSlowestTests
    \/ MainLargestOutputs
    \/ MainTokenSavings
    \/ MainRealisticTokenSavings
    \/ MainPlot
    \/ PlotResults

SpecMain == InitMain /\ [][NextMain]_vars

-----------------------------------------------------------------------------
(* examples/ai_agent_example.py: a query, ensure_fresh_index, the results. *)
(* A command line is the sequence of its words and of the blanks between   *)
(* them; a response carries seq, the ordinal of the query that produced    *)
(* it.                                                                     *)

MaxResults == 2

\* action.split()
Split(action) == SelectSeq(action, LAMBDA w : w # " ")

\* the default of metadata.get("action_required", "rfx index")
DefaultAction == <<"rfx", " ", "index">>

\* action = metadata.get("action_required", "rfx index")
ActionRequired(metadata) ==
    IF "action_required" \in DOMAIN metadata
    THEN metadata.action_required ELSE DefaultAction

Statuses == {"fresh", "stale"}

Actions == {DefaultAction, <<"rfx", " ", "index", " ", "--force">>}

\* the metadata of a response: status, and reason and action_required or not
Metadatas ==
    {[status |-> s] : s \in Statuses}
    \cup {[status |-> s, reason |-> "files changed"] : s \in Statuses}
    \cup {[status |-> s, action_required |-> a] : s \in Statuses, a \in Actions}
    \cup {[status |-> s, reason |-> "files changed", action_required |-> a] :
            s \in Statuses, a \in Actions}

\* json.loads(result.stdout) of the n-th query
Responses(n) ==
    {[metadata |-> m, results |-> [i \in 1..k |-> "CacheManager"], seq |-> n] :
        m \in Metadatas, k \in 0..MaxResults}

InitAgent ==
    /\ pc = "query_reflex"
    /\ AgentIdle
    /\ MainIdle
    /\ results = None
    /\ top_n = 0
    /\ summary_stats = None
    /\ category_stats = None
    /\ category_results = None
    /\ complexity_results = None
    /\ category_breakdown = None
    /\ complexity_breakdown = None
    /\ slowest = None
    /\ largest = None
    /\ token_savings = None
    /\ realistic_savings = None

\* print(..., file=sys.stderr)
Stderr(kind, text) == [kind |-> kind, text |-> text]

\* what ensure_fresh_index prints for a response that is not fresh
StaleDiagnostics(metadata) ==
    <<Stderr("Index is stale", metadata.status)>>
        \o (IF "reason" \in DOMAIN metadata
            THEN <<Stderr("Reason", metadata.reason)>> ELSE <<>>)
        \o <<Stderr("Running", ActionRequired(metadata))>>

\* response = query_reflex(pattern, limit=5, reflex_bin=reflex_bin)
\* subprocess.run(..., check=True) raises when the command fails
QueryReflex ==
    /\ pc = "query_reflex"
    /\ queries' = queries + 1
    /\ \E completed \in BOOLEAN :
          IF completed
          THEN /\ response' \in Responses(queries + 1)
               /\ pc' = "ensure_fresh_index"
          ELSE /\ pc' = "raised"
               /\ UNCHANGED response
    /\ UNCHANGED <<returned, commands, messages>>
    /\ UNCHANGED <<results, top_n, outputs, file, plot, matplotlib, rendered,
                   exit_status, reads>>

\* ensure_fresh_index(response)
EnsureFreshIndex ==
    /\ pc = "ensure_fresh_index"
    /\ IF response.metadata.status # "fresh"
       THEN /\ commands' =
                  Append(commands, Split(ActionRequired(response.metadata)))
            /\ \E completed \in BOOLEAN :
                  IF completed
                  THEN /\ messages' =
                             messages \o StaleDiagnostics(response.metadata)
                               \o <<Stderr("Re-running query with fresh index",
                                           "")>>
                       /\ returned' = response
                       /\ pc' = "use_results"
                  ELSE /\ messages' =
                             messages \o StaleDiagnostics(response.metadata)
                       /\ pc' = "raised"
                       /\ UNCHANGED returned
       ELSE /\ returned' = response
            /\ pc' = "use_results"
            /\ UNCHANGED <<commands, messages>>
    /\ UNCHANGED <<response, queries>>
    /\ UNCHANGED <<results, top_n, outputs, file, plot, matplotlib, rendered,
                   exit_status, reads>>

\* response = ensure_fresh_index(response); results = response["results"]; ...
UseResults ==
    /\ pc = "use_results"
    /\ response' = returned
    /\ messages' = Append(messages, Stderr("Found", Len(returned.results)))
    /\ pc' = "done"
    /\ UNCHANGED <<returned, commands, queries>>
    /\ UNCHANGED <<results, top_n, outputs, file, plot, matplotlib, rendered,
                   exit_status, reads>>

NextAgent == QueryReflex \/ EnsureFreshIndex \/ UseResults

SpecAgent == InitAgent /\ [][NextAgent]_vars

-----------------------------------------------------------------------------
(* Claims about the summary statistics (SpecSummary).                      *)

PassedOf(rs) == SelectSeq(rs, LAMBDA r : r.status = "PASS")

Leq(a, b) == a.num * b.den <= b.num * a.den

InRange(v) == Leq(Zero, v) /\ Leq(v, Hundred)

\* C5: the summary of every ResultSet has passed + failed = total_tests, a
\* success_rate in [0, 100], and a success_rate of 0 when total_tests is 0.
C5_SummaryCountsAndRate ==
    pc = "calculate_summary_stats" =>
        /\ summary_stats.total_tests = Len(results)
        /\ summary_stats.passed + summary_stats.failed = summary_stats.total_tests
        /\ summary_stats.passed >= 0
        /\ summary_stats.failed >= 0
        /\ InRange(summary_stats.success_rate)
        /\ (summary_stats.total_tests = 0 => summary_stats.success_rate = Zero)

\* a summary of a ResultSet that has passed and failed records
C5_Witness ==
    /\ pc = "calculate_summary_stats"
    /\ summary_stats.passed >= 1
    /\ summary_stats.failed >= 1
    /\ summary_stats.success_rate = Rat(100, 3)

\* C6: neither statistics function raises, and for a ResultSet or group with
\* no PASS record the averages, the minimum and the maximum are 0, as is the
\* success_rate of an empty one.
C6_NoZeroDenominator ==
    /\ pc # "raised"
    /\ (pc = "calculate_summary_stats" /\ PassedOf(results) = <<>>) =>
          /\ summary_stats.avg_duration_ms = Zero
          /\ summary_stats.min_duration_ms = Zero
          /\ summary_stats.max_duration_ms = Zero
          /\ summary_stats.avg_output_size_bytes = Zero
          /\ (results = <<>> => summary_stats.success_rate = Zero)
    /\ (pc = "calculate_category_stats" /\ PassedOf(results) = <<>>) =>
          /\ category_stats.avg_duration_ms = Zero
          /\ category_stats.avg_output_size_bytes = Zero
          /\ (results = <<>> => category_stats.success_rate = Zero)

\* the summary of a ResultSet that has records, none of them PASS
C6_Witness ==
    /\ pc = "calculate_summary_stats"
    /\ Len(results) >= 2
    /\ PassedOf(results) = <<>>

-----------------------------------------------------------------------------
(* Claims about the token-cost models (SpecToken).                         *)

\* the multiplier of a complexity: Simple 1.5, Medium 2.5, Complex 5.0 and
\* 2.0 for any other value
ClaimedMultiplier(complexity) ==
    CASE complexity = "Simple"  -> Rat(3, 2)
      [] complexity = "Medium"  -> Rat(5, 2)
      [] complexity = "Complex" -> Num(5)
      [] OTHER                  -> Num(2)

\* the sum of the multipliers of the records of rs
RECURSIVE WeightedCalls(_)
WeightedCalls(rs) ==
    IF rs = <<>> THEN Zero
    ELSE Add(ClaimedMultiplier(Head(rs).complexity), WeightedCalls(Tail(rs)))

\* the sum of output_size_bytes over the PASS records of rs
RECURSIVE PassedOutputChars(_)
PassedOutputChars(rs) ==
    IF rs = <<>> THEN 0
    ELSE (IF Head(rs).status = "PASS" THEN Head(rs).output_size_bytes ELSE 0)
         + PassedOutputChars(Tail(rs))

PassedCount(rs) == Cardinality({i \in 1..Len(rs) : rs[i].status = "PASS"})

\* savings / baseline total x 100 when baseline total > 0, else 0
ClaimedPercent(savings, baseline) ==
    IF baseline.num > 0 THEN Mul(Div(savings, baseline), Num(100)) ELSE Zero

\* two PASS records, one Simple and one Complex, of 2000 bytes together
TwoRecordScenario ==
    /\ Len(results) = 2
    /\ \A i \in 1..2 : results[i].status = "PASS"
    /\ {results[1].complexity, results[2].complexity} = {"Simple", "Complex"}
    /\ results[1].output_size_bytes + results[2].output_size_bytes = 2000

\* the token figures of estimate_token_savings, the call counts left out
TokenFigures(t) ==
    << t.rfx_output_tokens, t.rfx_overhead_tokens, t.rfx_total_tokens,
       t.builtin_output_tokens, t.builtin_overhead_tokens,
       t.builtin_total_tokens, t.tool_output_savings,
       t.tool_output_savings_pct >>

\* the duration and output-size aggregates of a summary
Aggregates(s) ==
    << s.avg_duration_ms, s.min_duration_ms, s.max_duration_ms,
       s.avg_output_size_bytes, s.total_output_size_bytes >>

\* C1: a FAIL record contributes to no duration, output-size or token figure:
\* every such figure of a ResultSet is the figure of its PASS records alone.
C1_FailNeverContributes ==
    /\ pc = "calculate_summary_stats" =>
          Aggregates(summary_stats)
              = Aggregates(calculate_summary_stats(PassedOf(results)))
    /\ pc = "estimate_token_savings" =>
          TokenFigures(token_savings)
              = TokenFigures(estimate_token_savings(PassedOf(results)))
    /\ pc = "estimate_realistic_token_savings" =>
          realistic_savings = estimate_realistic_token_savings(PassedOf(results))

\* the part of C1 that the code keeps: the aggregates of the summary and
\* every figure of the full-conversation model
C1_FailNeverContributesElsewhere ==
    /\ pc = "calculate_summary_stats" =>
          Aggregates(summary_stats)
              = Aggregates(calculate_summary_stats(PassedOf(results)))
    /\ pc = "estimate_realistic_token_savings" =>
          realistic_savings = estimate_realistic_token_savings(PassedOf(results))

\* C2: the figures of the tool-output-only model: calls = all records,
\* output tokens = PASS bytes / 4, overhead = calls x 50, baseline calls = sum
\* of the records' multipliers, baseline output = output x 1.8, baseline
\* overhead = baseline calls x 50, savings = baseline total - measured total,
\* percent = savings / baseline total x 100 (0 when the baseline total is 0);
\* the two-record scenario gives 600, 6.5, 1225 and 625.
C2_ToolOutputModel ==
    pc = "estimate_token_savings" =>
        LET calls    == Len(results)
            output   == Rat(PassedOutputChars(results), 4)
            overhead == Num(calls * 50)
            total    == Add(output, overhead)
            bcalls   == WeightedCalls(results)
            boutput  == Mul(output, Rat(18, 10))
            bovh     == Mul(bcalls, Num(50))
            btotal   == Add(boutput, bovh)
            savings  == Sub(btotal, total)
        IN  /\ token_savings.rfx_tool_calls = calls
            /\ token_savings.rfx_output_tokens = output
            /\ token_savings.rfx_overhead_tokens = overhead
            /\ token_savings.rfx_total_tokens = total
            /\ token_savings.builtin_tool_calls = bcalls
            /\ token_savings.builtin_output_tokens = boutput
            /\ token_savings.builtin_overhead_tokens = bovh
            /\ token_savings.builtin_total_tokens = btotal
            /\ token_savings.tool_output_savings = savings
            /\ token_savings.tool_output_savings_pct = ClaimedPercent(savings, btotal)
            /\ TwoRecordScenario =>
                  /\ token_savings.rfx_total_tokens = Num(600)
                  /\ token_savings.builtin_tool_calls = Rat(13, 2)
                  /\ token_savings.builtin_total_tokens = Num(1225)
                  /\ token_savings.tool_output_savings = Num(625)

\* the tool-output-only model applied to the two-record scenario
C2_Witness == pc = "estimate_token_savings" /\ TwoRecordScenario

\* C3: the full-conversation model counts the PASS records only (p of them):
\* measured total = 25p + 120p + PASS bytes / 4 + 50p + 80p, baseline total =
\* 25p + 180p + 96p + 1.8 x PASS bytes / 4 + 50 x baseline calls, baseline
\* calls = sum of the PASS records' multipliers; savings = baseline total -
\* measured total and the percent is 0 when the baseline total is 0.
C3_FullConversationModel ==
    pc = "estimate_realistic_token_savings" =>
        LET p       == PassedCount(results)
            output  == Rat(PassedOutputChars(results), 4)
            total   == Add(Num(25 * p + 120 * p + 50 * p + 80 * p), output)
            bcalls  == WeightedCalls(PassedOf(results))
            btotal  == Add(Add(Num(25 * p + 180 * p + 96 * p),
                               Mul(Rat(18, 10), output)),
                           Mul(Num(50), bcalls))
            savings == Sub(btotal, total)
        IN  /\ realistic_savings.rfx_tool_calls = p
            /\ realistic_savings.rfx_total_tokens = total
            /\ realistic_savings.builtin_tool_calls = bcalls
            /\ realistic_savings.builtin_total_tokens = btotal
            /\ realistic_savings.total_savings = savings
            /\ realistic_savings.savings_pct = ClaimedPercent(savings, btotal)
            /\ (btotal = Zero => realistic_savings.savings_pct = Zero)

\* the full-conversation model applied to PASS records, one of them of an
\* unrecognised complexity, and a FAIL record
C3_Witness ==
    /\ pc = "estimate_realistic_token_savings"
    /\ PassedCount(results) = 2
    /\ Len(results) = 3
    /\ \E i \in 1..3 : results[i].status = "PASS" /\ results[i].complexity = "Unknown"
    /\ Positive(realistic_savings.total_savings)

AllZero(figures) == \A i \in 1..Len(figures) : figures[i] = Zero

\* C7: both token models accept the empty ResultSet: nothing is raised and
\* every measured and baseline figure, the savings and the percent are 0.
C7_EmptyResultSet ==
    results = <<>> =>
        /\ pc # "raised"
        /\ pc = "estimate_token_savings" =>
              /\ token_savings.rfx_tool_calls = 0
              /\ token_savings.builtin_tool_calls = Zero
              /\ AllZero(TokenFigures(token_savings))
        /\ pc = "estimate_realistic_token_savings" =>
              /\ realistic_savings.rfx_tool_calls = 0
              /\ \A f \in DOMAIN realistic_savings \ {"rfx_tool_calls"} :
                    realistic_savings[f] = Zero

\* the tool-output-only model applied to the empty ResultSet
C7_Witness == results = <<>> /\ pc = "estimate_token_savings"

-----------------------------------------------------------------------------
(* Claims about the rankings (SpecRank).                                   *)

Smaller(a, b) == IF a < b THEN a ELSE b

\* rows is a ranking of the PASS records of results by metric m: its rows are
\* PASS records of the ResultSet, in non-increasing order of the field, ties
\* in the order of the ResultSet, and no PASS record left out beats a row
IsRanking(rows, field, k) ==
    /\ Len(rows) = Smaller(k, PassedCount(results))
    /\ \A i \in 1..Len(rows) :
          /\ rows[i].status = "PASS"
          /\ rows[i].test_id \in 1..Len(results)
          /\ results[rows[i].test_id] = rows[i]
    /\ \A i, j \in 1..Len(rows) :
          i < j => \/ rows[i][field] > rows[j][field]
                   \/ rows[i][field] = rows[j][field] /\ rows[i].test_id < rows[j].test_id
    /\ \A n \in 1..Len(results) :
          (results[n].status = "PASS" /\ \A i \in 1..Len(rows) : rows[i] # results[n])
              => \A i \in 1..Len(rows) :
                    \/ rows[i][field] > results[n][field]
                    \/ rows[i][field] = results[n][field] /\ rows[i].test_id < n

\* C4: for top_n = k >= 0 each ranking holds min(k, passed_count) records, all
\* PASS, in non-increasing order of its metric, equal values in insertion
\* order; with fewer than k PASS records it holds them all.
C4_RankingTopN ==
    top_n >= 0 =>
        /\ pc = "print_slowest_tests" => IsRanking(slowest, "duration_ms", top_n)
        /\ pc = "print_largest_outputs" => IsRanking(largest, "output_size_bytes", top_n)

\* a ranking by duration cut to two of three PASS records, the two tied
C4_Witness ==
    /\ pc = "print_slowest_tests"
    /\ top_n = 2
    /\ PassedCount(results) = 3
    /\ Len(slowest) = 2
    /\ slowest[1].duration_ms = slowest[2].duration_ms
    /\ slowest[1].test_id = 2
    /\ slowest[2].test_id = 3

-----------------------------------------------------------------------------
(* Claims about the groups (SpecCategory, SpecComplexity).                 *)

\* the places <<g, j>> of the members of the groups of a dict
Places(d) == {<<g, j>> \in (1..Len(d)) \X (1..MaxLen + 1) : j <= Len(d[g].value)}

RECURSIVE SumTotals(_)
SumTotals(b) ==
    IF b = <<>> THEN 0 ELSE Head(b).stats.total_tests + SumTotals(Tail(b))

\* C8: group_by_category partitions the ResultSet: every record is in exactly
\* one group, the one of its category, in insertion order; no group is empty
\* and the groups' total_tests add up to the overall total.
C8_CategoryPartition ==
    pc = "print_category_breakdown" =>
        /\ \A n \in 1..Len(results) :
              Cardinality({pl \in Places(category_results) :
                  category_results[pl[1]].value[pl[2]] = results[n]}) = 1
        /\ \A pl \in Places(category_results) :
              LET r == category_results[pl[1]].value[pl[2]]
              IN  /\ r.category = category_results[pl[1]].key
                  /\ r.test_id \in 1..Len(results)
                  /\ results[r.test_id] = r
        /\ \A g \in 1..Len(category_results) :
              /\ category_results[g].value # <<>>
              /\ \A i, j \in 1..Len(category_results[g].value) :
                    i < j => category_results[g].value[i].test_id
                                < category_results[g].value[j].test_id
        /\ \A g, h \in 1..Len(category_results) :
              category_results[g].key = category_results[h].key => g = h
        /\ Len(category_breakdown) = Len(category_results)
        /\ SumTotals(category_breakdown) = calculate_summary_stats(results).total_tests

\* two groups, one of them of two records with another group's record between
C8_Witness ==
    /\ pc = "print_category_breakdown"
    /\ Len(results) = 3
    /\ results[1].category = results[3].category
    /\ results[1].category # results[2].category
    /\ Len(category_results) = 2

\* C9: the statistics of every group equal the summary statistics of the
\* group taken as a ResultSet, on total_tests, passed, success_rate,
\* avg_duration_ms and avg_output_size_bytes.
C9_GroupStatsAreSummaryStats ==
    pc = "print_category_breakdown" =>
        \A i \in 1..Len(category_breakdown) :
            LET stats == category_breakdown[i].stats
                G     == Get(category_results, category_breakdown[i].key)
                s     == calculate_summary_stats(G)
            IN  /\ stats.total_tests = s.total_tests
                /\ stats.passed = s.passed
                /\ stats.success_rate = s.success_rate
                /\ stats.avg_duration_ms = s.avg_duration_ms
                /\ stats.avg_output_size_bytes = s.avg_output_size_bytes

\* a group of PASS and FAIL records whose averages are not 0
C9_Witness ==
    /\ pc = "print_category_breakdown"
    /\ \E i \in 1..Len(category_breakdown) :
          /\ category_breakdown[i].stats.total_tests = 3
          /\ category_breakdown[i].stats.passed = 2
          /\ category_breakdown[i].stats.avg_duration_ms = Rat(1, 2)
          /\ Positive(category_breakdown[i].stats.avg_output_size_bytes)

CountOf(complexity) ==
    Cardinality({n \in 1..Len(results) : results[n].complexity = complexity})

Occurs(complexity) == CountOf(complexity) > 0

\* C10: the complexity breakdown lists Simple, Medium, Complex in this order
\* whatever the order of the ResultSet, skips a tier without records, omits a
\* group of any other complexity without an error, and the records of such a
\* group are still counted by the summary and by the category breakdown.
C10_ComplexityBreakdownOrder ==
    /\ pc # "raised"
    /\ pc = "print_complexity_breakdown" =>
          /\ \A i \in 1..Len(complexity_breakdown) :
                /\ complexity_breakdown[i].key \in {"Simple", "Medium", "Complex"}
                /\ Occurs(complexity_breakdown[i].key)
                /\ complexity_breakdown[i].stats.total_tests
                      = CountOf(complexity_breakdown[i].key)
          /\ \A x \in {"Simple", "Medium", "Complex"} :
                Occurs(x) => \E i \in 1..Len(complexity_breakdown) :
                                complexity_breakdown[i].key = x
          /\ \A i, j \in 1..Len(complexity_breakdown) :
                i < j =>
                    <<complexity_breakdown[i].key, complexity_breakdown[j].key>>
                        \in {<<"Simple", "Medium">>, <<"Simple", "Complex">>,
                             <<"Medium", "Complex">>}
    /\ pc = "calculate_summary_stats" => summary_stats.total_tests = Len(results)
    /\ pc = "print_category_breakdown" =>
          SumTotals(category_breakdown) = Len(results)

\* a breakdown of a ResultSet whose tiers first occur as Unknown, Complex,
\* Simple: the breakdown lists Simple, then Complex
C10_Witness ==
    /\ pc = "print_complexity_breakdown"
    /\ Len(results) = 3
    /\ results[1].complexity = "Unknown"
    /\ results[2].complexity = "Complex"
    /\ results[3].complexity = "Simple"
    /\ Len(complexity_breakdown) = 2
    /\ complexity_breakdown[1].key = "Simple"

-----------------------------------------------------------------------------
(* Claims about the sign of the savings (SpecToken).                       *)

Less(a, b) == a.num * b.den < b.num * a.den

\* the percentage is in [0, 100)
BelowHundred(v) == Leq(Zero, v) /\ Less(v, Hundred)

\* C15: for every ResultSet with non-negative output sizes, in both token
\* models the savings are never negative, the savings percent is in [0, 100),
\* the baseline call count is at least 1.5 times the measured call count, the
\* baseline total is at least the measured total, and the tool-call reduction
\* (baseline calls - measured calls) is never negative.
C15_SavingsNeverNegative ==
    /\ pc = "estimate_token_savings" =>
          /\ Leq(Zero, token_savings.tool_output_savings)
          /\ BelowHundred(token_savings.tool_output_savings_pct)
          /\ Leq(Mul(Rat(3, 2), Num(token_savings.rfx_tool_calls)),
                 token_savings.builtin_tool_calls)
          /\ Leq(token_savings.rfx_total_tokens,
                 token_savings.builtin_total_tokens)
          /\ Leq(Zero, Sub(token_savings.builtin_tool_calls,
                           Num(token_savings.rfx_tool_calls)))
    /\ pc = "estimate_realistic_token_savings" =>
          /\ Leq(Zero, realistic_savings.total_savings)
          /\ BelowHundred(realistic_savings.savings_pct)
          /\ Leq(Mul(Rat(3, 2), Num(realistic_savings.rfx_tool_calls)),
                 realistic_savings.builtin_tool_calls)
          /\ Leq(realistic_savings.rfx_total_tokens,
                 realistic_savings.builtin_total_tokens)
          /\ Leq(Zero, Sub(realistic_savings.builtin_tool_calls,
                           Num(realistic_savings.rfx_tool_calls)))

\* the tool-output figures of a ResultSet whose records are all of a
\* complexity outside the table, so that only the default multiplier applies
C15_Witness ==
    /\ pc = "estimate_token_savings"
    /\ Len(results) = 2
    /\ \A i \in 1..Len(results) :
          /\ results[i].complexity = "Unknown"
          /\ results[i].status = "PASS"
          /\ results[i].output_size_bytes = OutputUnit
    /\ token_savings.builtin_tool_calls = Num(4)
    /\ Positive(token_savings.tool_output_savings)

-----------------------------------------------------------------------------
(* Claims about the runs of main (SpecMain).                               *)

\* the file is absent, does not load, or loads to zero records
NoRecords ==
    \/ file.state = "absent"
    \/ file.state = "malformed"
    \/ file.state = "ok" /\ file.content = <<>>

HasMessage(kind) == \E i \in 1..Len(messages) : messages[i].kind = kind

IsPrefix(s, t) == Len(s) <= Len(t) /\ s = SubSeq(t, 1, Len(s))

\* the steps of main before a section is rendered
LoadStages == {"exists", "load_results", "empty"}

\* C11: a run of main on a file that is absent, that does not load or that
\* loads to zero records never gets past the load and its checks, ends with
\* a non-zero exit status (and an ERROR message when the file is absent or
\* empty), and renders no section; every other run renders the seven
\* sections in the fixed order, all of them before it reaches the chart or
\* ends.
C11_MainRun ==
    /\ NoRecords =>
          /\ pc \in LoadStages \cup {"exited"}
          /\ rendered = <<>>
          /\ pc = "exited" =>
                /\ exit_status # 0
                /\ file.state # "malformed" => HasMessage("ERROR")
    /\ ~NoRecords =>
          /\ IsPrefix(rendered, Sections)
          /\ pc \in {"plot", "plot_results", "exited"} => rendered = Sections

\* the end of a run on a file that loads to zero records
C11_Witness ==
    /\ pc = "exited"
    /\ file.state = "ok"
    /\ file.content = <<>>
    /\ results = <<>>
    /\ exit_status = 1
    /\ HasMessage("ERROR")

\* the chart is drawn only on request and after the seven sections
C12_ChartOnlyOnRequestAndLast ==
    pc = "plot_results" => plot /\ rendered = Sections

\* C12: plot_results runs only when the chart is requested and after the
\* seven sections are rendered, and whenever it fails on a non-empty
\* ResultSet the run still ends with exit status 0, the seven sections
\* rendered, and a WARNING in place of the chart.
C12_ChartFailureIsNonFatal ==
    /\ C12_ChartOnlyOnRequestAndLast
    /\ (pc = "exited" /\ ~NoRecords /\ plot) =>
          /\ exit_status = 0
          /\ rendered = Sections
          /\ HasMessage("Charts saved to") \/ HasMessage("WARNING")


\* the three numeric fields a FAIL record may lack
OptionalFields == {"duration_ms", "output_size_bytes", "output_lines"}

\* the records of the file that lack the three fields
BareIds == {i \in 1..Len(file.content) :
               OptionalFields \cap DOMAIN file.content[i] = {}}

\* C13: a file with FAIL records that lack duration_ms, output_size_bytes and
\* output_lines loads to the list it holds, no stage of the report raises
\* KeyError, the seven sections are all rendered, and no stage reads one of
\* the three fields from a record whose status is not PASS.
C13_FailRecordsMayLackNumericFields ==
    /\ (file.state = "ok" /\ pc \notin {"exists", "load_results"}) =>
          results = file.content
    /\ \A i \in 1..Len(messages) :
          ~(messages[i].kind = "Traceback" /\ messages[i].text = "KeyError")
    /\ \A p \in reads :
          p[2] \in OptionalFields => results[p[1]].status = "PASS"
    /\ (BareIds # {} /\ pc \in {"plot", "plot_results", "exited"}) =>
          rendered = Sections

\* the report of a file with a PASS record and a FAIL record that lacks the
\* three fields, complete, the PASS record's output_lines having been read
C13_Witness ==
    /\ pc = "plot"
    /\ rendered = Sections
    /\ Len(results) = 2
    /\ results[1].status = "FAIL"
    /\ 1 \in BareIds
    /\ results[2].status = "PASS"
    /\ <<1, "status">> \in reads
    /\ <<2, "output_lines">> \in reads
    /\ <<2, "duration_ms">> \in reads

-----------------------------------------------------------------------------
(* Claims about ensure_fresh_index (SpecAgent).                            *)

\* when ensure_fresh_index has returned: for a fresh response no command
\* was run and the response is returned unchanged; for any other, the one
\* command run is the action of the metadata, "rfx index" by default
C14_FreshUntouchedStaleReindexed ==
    pc = "use_results" =>
        IF response.metadata.status = "fresh"
        THEN commands = <<>> /\ returned = response /\ queries = 1
        ELSE commands = <<Split(ActionRequired(response.metadata))>>

\* C14: when ensure_fresh_index has returned for a response that is not
\* fresh, it has run the re-index action and then queried again, and what it
\* returns is the response of that second query, not the stale one it was
\* given; for a fresh response it ran no command and returns it unchanged.
C14_StaleResponseIsRequeried ==
    /\ C14_FreshUntouchedStaleReindexed
    /\ (pc = "use_results" /\ response.metadata.status # "fresh") =>
          /\ queries = 2
          /\ returned.seq = 2
          /\ returned # response

=============================================================================
